---- MODULE Spec2Model ----
(***************************************************************************)
(* A model of src/main.py: the paragraph-style value object and its        *)
(* serialization (DocxParagraphStyle), the name-keyed StyleCollection with *)
(* its JSON persistence, the text rules (UniversalRule, KeywordRule,       *)
(* LengthRule) and DocxManager's two passes over a document,               *)
(* update_style_definitions and apply_rules_to_paragraphs.                 *)
(*                                                                         *)
(* Conventions.                                                            *)
(*  - A Python Optional value is a set with at most one element: None is   *)
(*    {} and a present value v is {v}.                                     *)
(*  - A Python dict is a function with a string domain; dict.get(k, d) is  *)
(*    Get.                                                                 *)
(*  - A Python str that the code inspects character by character (the      *)
(*    paragraph text, a keyword) is a sequence of one-character strings.   *)
(*  - Sizes and indents are integers (whole points, whole centimetres).    *)
(*  - The python-docx document is its paragraph style table, a function    *)
(*    from style name to an Optional descriptor, and its paragraph list.   *)
(***************************************************************************)
EXTENDS Integers, Sequences, FiniteSets, TLC

VARIABLES
    items,          \* StyleCollection._items, the content of the list object
    prevItems,      \* _items as it was when the last operation began
    file,           \* the JSON file a save/load call names
    view,           \* which list object the caller got from get_all_items
    lastOp,         \* the operation that produced this state
    lastItem,       \* Optional: the argument of the last add / view append
    raised,         \* the exception the last operation ended with, or "none"
    rt_s,           \* round trip: the style serialized
    rt_dict,        \* round trip: Optional, the record to_dict returned
    rt_back,        \* round trip: Optional, the style from_dict returned
    docStyles,      \* doc.styles: style name -> Optional descriptor
    paras,          \* doc.paragraphs: sequence of [text, style]
    prevParas,      \* doc.paragraphs when the last operation began
    lastRules,      \* the rule list of the last apply_rules_to_paragraphs
    applied_count   \* apply_rules_to_paragraphs' applied_count at its end

vars == <<items, prevItems, file, view, lastOp, lastItem, raised, rt_s, rt_dict, rt_back,
          docStyles, paras, prevParas, lastRules, applied_count>>

collVars == <<items, prevItems, file, view, lastOp, lastItem, raised>>
rtVars == <<rt_s, rt_dict, rt_back>>
docVars == <<docStyles, paras, prevParas, lastRules, applied_count>>

(***************************************************************************)
(* Bounds of the model.                                                    *)
(***************************************************************************)
MaxFileLen == 3     \* records in a JSON file
MaxItems == 3       \* length a caller grows the returned list to
MaxTextLen == 2     \* characters of a paragraph text

(***************************************************************************)
(* Python values.                                                          *)
(***************************************************************************)
None == {}
Some(v) == {v}
Truthy(opt) == opt # None

EmptyDict == [k \in {} |-> {}]
Get(d, k, default) == IF k \in DOMAIN d THEN d[k] ELSE default

Min(S) == CHOOSE m \in S : \A n \in S : m <= n
Max(S) == CHOOSE m \in S : \A n \in S : n <= m

RECURSIVE SeqsUpTo(_, _)
SeqsUpTo(S, n) ==
    IF n = 0 THEN {<<>>}
    ELSE LET shorter == SeqsUpTo(S, n - 1)
         IN  shorter \cup { Append(q, x) : q \in shorter, x \in S }

(***************************************************************************)
(* DocxParagraphStyle.                                                     *)
(***************************************************************************)
DefaultFontName == "Calibri"
DefaultFontSize == 11

DocxParagraphStyle(name, font_name, font_size, bold, italic, color_rgb, alignment, first_line_indent, left_indent, space_after) ==
    [name |-> name, font_name |-> font_name, font_size |-> font_size,
     bold |-> bold, italic |-> italic, color_rgb |-> color_rgb,
     alignment |-> alignment, first_line_indent |-> first_line_indent,
     left_indent |-> left_indent, space_after |-> space_after]

to_dict(s) ==
    [type |-> "DocxParagraphStyle",
     name |-> s.name,
     font |-> [name |-> s.font_name, size |-> s.font_size, bold |-> s.bold,
               italic |-> s.italic, color |-> s.color_rgb],
     paragraph |-> [alignment |-> s.alignment,
                    first_line_indent |-> s.first_line_indent,
                    left_indent |-> s.left_indent,
                    space_after |-> s.space_after]]

\* data["name"] raises KeyError when the record has no name
from_dict_raises(data) == "name" \notin DOMAIN data

\* from_dict reading the font group with `or` defaults
from_dict_falsy_defaults(data) ==
    LET font == Get(data, "font", EmptyDict)
        para == Get(data, "paragraph", EmptyDict)
    IN  [name |-> data["name"],
         font_name |-> Get(font, "name", "Calibri"),
         font_size |-> IF "size" \in DOMAIN font /\ font["size"] # 0
                       THEN font["size"] ELSE 11,
         bold |-> Get(font, "bold", FALSE), italic |-> Get(font, "italic", FALSE),
         color_rgb |-> Get(font, "color", None),
         alignment |-> Get(para, "alignment", 0),
         first_line_indent |-> Get(para, "first_line_indent", 0),
         left_indent |-> Get(para, "left_indent", 0),
         space_after |-> Get(para, "space_after", 0)]

from_dict(data) ==
    LET font == Get(data, "font", EmptyDict)
        para == Get(data, "paragraph", EmptyDict)
    IN  DocxParagraphStyle(
            data["name"],
            Get(font, "name", DefaultFontName), Get(font, "size", DefaultFontSize),
            Get(font, "bold", FALSE), Get(font, "italic", FALSE),
            Get(font, "color", None),
            Get(para, "alignment", 0), Get(para, "first_line_indent", 0),
            Get(para, "left_indent", 0), Get(para, "space_after", 0))

\* BaseStyle.__eq__
StyleEq(a, b) == to_dict(a) = to_dict(b)

(***************************************************************************)
(* Inputs.                                                                 *)
(***************************************************************************)
Names == {"Normal", "Heading 1", "Body"}
FontNames == {"Calibri", "Arial"}
FontSizes == {0, 11, 16}
Colors == {None, Some(<<255, 0, 0>>), Some(<<0, 0, 0>>)}
Alignments == 0 .. 3
Indents == {0, 1}
Spaces == {0, 6}

AllStyles ==
    { DocxParagraphStyle(n, fn, fs, b, i, c, a, fl, li, sa) :
        n \in Names, fn \in FontNames, fs \in FontSizes, b \in BOOLEAN,
        i \in BOOLEAN, c \in Colors, a \in Alignments, fl \in Indents,
        li \in Indents, sa \in Spaces }

Plain(name) == DocxParagraphStyle(name, "Calibri", 11, FALSE, FALSE, None, 0, 0, 0, 0)

SampleStyles ==
    { Plain("Normal"),
      DocxParagraphStyle("Normal", "Arial", 0, TRUE, FALSE, None, 3, 1, 0, 6),
      DocxParagraphStyle("Heading 1", "Arial", 16, TRUE, TRUE, Some(<<255, 0, 0>>), 1, 0, 1, 6),
      Plain("Body") }

(***************************************************************************)
(* StyleCollection.                                                        *)
(***************************************************************************)
\* add without the search for an entry of the same name
add_always_appends(its, item) == Append(its, item)

\* add that drops the entry of the same name and puts the item at the end
add_moves_to_end(its, item) ==
    LET keep == { idx \in 1 .. Len(its) : its[idx].name # item.name }
        rank(idx) == Cardinality({ k \in keep : k <= idx })
        kept == [j \in 1 .. Cardinality(keep) |->
                    its[CHOOSE idx \in keep : rank(idx) = j]]
    IN  Append(kept, item)

add(its, item) ==
    LET hits == { idx \in 1 .. Len(its) : its[idx].name = item.name }
    IN  IF hits # {} THEN [its EXCEPT ![Min(hits)] = item]
        ELSE Append(its, item)

contains(its, name) == \E idx \in 1 .. Len(its) : its[idx].name = name

count(its) == Len(its)

\* the for loop of load_from_file from record i on; a record whose name is
\* missing raises KeyError out of from_dict and out of load_from_file
RECURSIVE LoadLoop(_, _, _)
LoadLoop(data, i, acc) ==
    IF i > Len(data) THEN [items |-> acc, raised |-> "none"]
    ELSE IF Get(data[i], "type", "None") = "DocxParagraphStyle"
         THEN IF from_dict_raises(data[i])
              THEN [items |-> acc, raised |-> "KeyError"]
              ELSE LoadLoop(data, i + 1, add(acc, from_dict(data[i])))
         ELSE LoadLoop(data, i + 1, acc)

\* the records a file may hold: saved styles, a record with defaults only,
\* a record without a name, records with an unrecognized or no type tag
FileRecords ==
    { to_dict(DocxParagraphStyle("Normal", "Arial", 0, TRUE, FALSE, None, 3, 1, 0, 6)),
      to_dict(DocxParagraphStyle("Heading 1", "Arial", 16, TRUE, TRUE, Some(<<255, 0, 0>>), 1, 0, 1, 6)),
      [type |-> "DocxParagraphStyle", name |-> "Normal"],
      [type |-> "DocxParagraphStyle", font |-> [size |-> 16]],
      [type |-> "DocxCharacterStyle", name |-> "Normal"] }

MissingFile == [exists |-> FALSE, valid |-> FALSE, data |-> <<>>]
InvalidFile == [exists |-> TRUE, valid |-> FALSE, data |-> <<>>]
JsonFile(d) == [exists |-> TRUE, valid |-> TRUE, data |-> d]

\* load_from_file without its clear()
load_without_clear(its, f) ==
    IF ~f.exists THEN [items |-> its, raised |-> "none"]
    ELSE IF ~f.valid THEN [items |-> its, raised |-> "JSONDecodeError"]
    ELSE LoadLoop(f.data, 1, its)

\* os.path.exists, then json.load (which raises on text that is not JSON),
\* then clear() and the loop
load_from_file(its, f) ==
    IF ~f.exists THEN [items |-> its, raised |-> "none"]
    ELSE IF ~f.valid THEN [items |-> its, raised |-> "JSONDecodeError"]
    ELSE LoadLoop(f.data, 1, <<>>)

save_to_file(its) == JsonFile([i \in 1 .. Len(its) |-> to_dict(its[i])])

\* what an edit outside the program makes of file f: removed, no longer
\* valid JSON, an empty list, or one more record at the end of its list
FileEdits(f) ==
    {MissingFile, InvalidFile, JsonFile(<<>>)}
        \cup { JsonFile(Append(f.data, r)) :
                 r \in { x \in FileRecords : f.valid /\ Len(f.data) < MaxFileLen } }

(***************************************************************************)
(* The document: python-docx lengths, colors and the paragraph style       *)
(* table.  A descriptor holds what style.font and style.paragraph_format   *)
(* hold; an attribute never set is None.                                   *)
(***************************************************************************)
Pt(points) == points * 12700        \* docx.shared.Pt, in EMU
Cm(cm) == cm * 360000               \* docx.shared.Cm, in EMU
RGBColor(c) == <<c[1], c[2], c[3]>> \* docx.shared.RGBColor(*c)

\* the descriptor of a style doc.styles.add_style has just created
NewStyle ==
    [font_name |-> None, font_size |-> None, bold |-> None, italic |-> None,
     color |-> None, alignment |-> None, first_line_indent |-> None,
     left_indent |-> None, space_after |-> None]

\* doc.styles[name] raises KeyError when the table has no such style
StyleExists(styles, name) == styles[name] # None

\* lines 211-229 with `pf.left_indent +=` in place of `pf.left_indent =`
set_style_attributes_adding_indent(word_style, my_style) ==
    [font_name |-> Some(my_style.font_name),
     font_size |-> IF my_style.font_size # 0 THEN Some(Pt(my_style.font_size))
                   ELSE word_style.font_size,
     bold |-> Some(my_style.bold),
     italic |-> Some(my_style.italic),
     color |-> IF Truthy(my_style.color_rgb)
               THEN { RGBColor(c) : c \in my_style.color_rgb }
               ELSE word_style.color,
     alignment |-> CASE my_style.alignment = 0 -> Some("LEFT")
                     [] my_style.alignment = 1 -> Some("CENTER")
                     [] my_style.alignment = 2 -> Some("RIGHT")
                     [] my_style.alignment = 3 -> Some("JUSTIFY")
                     [] OTHER -> word_style.alignment,
     first_line_indent |-> Some(Cm(my_style.first_line_indent)),
     left_indent |-> IF word_style.left_indent = None
                     THEN Some(Cm(my_style.left_indent))
                     ELSE { old + Cm(my_style.left_indent) : old \in word_style.left_indent },
     space_after |-> Some(Pt(my_style.space_after))]

\* the body of the loop of update_style_definitions after the lookup: the
\* size is set only when font_size is truthy, the color only when color_rgb
\* is, the alignment only for the codes 0..3
set_style_attributes(word_style, my_style) ==
    [font_name |-> Some(my_style.font_name),
     font_size |-> IF my_style.font_size # 0 THEN Some(Pt(my_style.font_size))
                   ELSE word_style.font_size,
     bold |-> Some(my_style.bold),
     italic |-> Some(my_style.italic),
     color |-> IF Truthy(my_style.color_rgb)
               THEN { RGBColor(c) : c \in my_style.color_rgb }
               ELSE word_style.color,
     alignment |-> CASE my_style.alignment = 0 -> Some("LEFT")
                     [] my_style.alignment = 1 -> Some("CENTER")
                     [] my_style.alignment = 2 -> Some("RIGHT")
                     [] my_style.alignment = 3 -> Some("JUSTIFY")
                     [] OTHER -> word_style.alignment,
     first_line_indent |-> Some(Cm(my_style.first_line_indent)),
     left_indent |-> Some(Cm(my_style.left_indent)),
     space_after |-> Some(Pt(my_style.space_after))]

\* update_style_definitions from entry i of the collection on
RECURSIVE update_style_definitions(_, _, _)
update_style_definitions(styles, its, i) ==
    IF i > Len(its) THEN styles
    ELSE LET my_style == its[i]
             word_style == IF StyleExists(styles, my_style.name)
                           THEN CHOOSE d \in styles[my_style.name] : TRUE
                           ELSE NewStyle
         IN  update_style_definitions(
                 [styles EXCEPT ![my_style.name] =
                     Some(set_style_attributes(word_style, my_style))],
                 its, i + 1)

(***************************************************************************)
(* The rules.  A text is a sequence of characters.                         *)
(***************************************************************************)
Chars == {"a", "B", " "}
Texts == SeqsUpTo(Chars, MaxTextLen)

lower(t) == [i \in 1 .. Len(t) |-> IF t[i] = "B" THEN "b"
                                   ELSE IF t[i] = "A" THEN "a" ELSE t[i]]

strip(t) ==
    LET solid == { i \in 1 .. Len(t) : t[i] # " " }
    IN  IF solid = {} THEN <<>> ELSE SubSeq(t, Min(solid), Max(solid))

\* Python's `sub in t` on strings
IsSubstring(sub, t) ==
    \E k \in 0 .. Len(t) - Len(sub) : SubSeq(t, k + 1, k + Len(sub)) = sub

UniversalRule(target_style_name) ==
    [kind |-> "UniversalRule", target_style_name |-> target_style_name]

KeywordRule(target_style_name, keyword) ==
    [kind |-> "KeywordRule", target_style_name |-> target_style_name,
     keyword |-> lower(keyword)]

LengthRule(target_style_name, max_chars) ==
    [kind |-> "LengthRule", target_style_name |-> target_style_name,
     max_chars |-> max_chars]

match(rule, paragraph_text) ==
    CASE rule.kind = "UniversalRule" -> TRUE
      [] rule.kind = "KeywordRule" -> IsSubstring(rule.keyword, lower(paragraph_text))
      [] rule.kind = "LengthRule" ->
            LET t == strip(paragraph_text) IN Len(t) > 0 /\ Len(t) <= rule.max_chars

\* the inner loop taking the last matching rule instead of the first
rule_loop_last_match(styles, rules, k, text, style) ==
    LET hits == { j \in k .. Len(rules) :
                    match(rules[j], text) /\ StyleExists(styles, rules[j].target_style_name) }
    IN  IF hits = {} THEN [style |-> style, applied |-> 0]
        ELSE [style |-> rules[Max(hits)].target_style_name, applied |-> 1]

\* the inner loop of apply_rules_to_paragraphs from rule k on, for a
\* paragraph of stripped text `text` and current style `style`: the first
\* matching rule whose target is in doc.styles is assigned and ends the
\* loop; a matching rule whose target is missing raises KeyError, which is
\* caught, and the loop goes on to the next rule
RECURSIVE rule_loop(_, _, _, _, _)
rule_loop(styles, rules, k, text, style) ==
    IF k > Len(rules) THEN [style |-> style, applied |-> 0]
    ELSE IF match(rules[k], text)
         THEN IF StyleExists(styles, rules[k].target_style_name)
              THEN [style |-> rules[k].target_style_name, applied |-> 1]
              ELSE rule_loop(styles, rules, k + 1, text, style)
         ELSE rule_loop(styles, rules, k + 1, text, style)

\* the outer loop from paragraph i on, with applied_count so far
RECURSIVE apply_rules_to_paragraphs(_, _, _, _, _)
apply_rules_to_paragraphs(styles, ps, rules, i, applied) ==
    IF i > Len(ps) THEN [paragraphs |-> ps, applied_count |-> applied]
    ELSE LET text == strip(ps[i].text)
         IN  IF text = <<>>
             THEN apply_rules_to_paragraphs(styles, ps, rules, i + 1, applied)
             ELSE LET r == rule_loop(styles, rules, 1, text, ps[i].style)
                  IN  apply_rules_to_paragraphs(
                          styles, [ps EXCEPT ![i].style = r.style], rules,
                          i + 1, applied + r.applied)

(***************************************************************************)
(* Values of the variables a specification does not use.                   *)
(***************************************************************************)
NoDocStyles == [n \in Names |-> None]

CollIdle ==
    /\ items = <<>> /\ prevItems = <<>> /\ file = MissingFile /\ view = "none"
    /\ lastOp = "init" /\ lastItem = None /\ raised = "none"

RtIdle == rt_s = Plain("Normal") /\ rt_dict = None /\ rt_back = None

DocIdle ==
    /\ docStyles = NoDocStyles /\ paras = <<>> /\ prevParas = <<>>
    /\ lastRules = <<>> /\ applied_count = 0

(***************************************************************************)
(* The collection and its file.                                            *)
(***************************************************************************)
Init == CollIdle /\ RtIdle /\ DocIdle

Add(item) ==
    /\ items' = add(items, item) /\ prevItems' = items
    /\ lastOp' = "add" /\ lastItem' = Some(item) /\ raised' = "none"
    /\ UNCHANGED <<file, view, rtVars, docVars>>

Clear ==
    /\ items' = <<>> /\ prevItems' = items
    /\ lastOp' = "clear" /\ lastItem' = None /\ raised' = "none"
    /\ UNCHANGED <<file, view, rtVars, docVars>>

LoadFromFile ==
    /\ LET r == load_from_file(items, file)
       IN  items' = r.items /\ raised' = r.raised
    /\ prevItems' = items
    /\ lastOp' = "load" /\ lastItem' = None
    /\ UNCHANGED <<file, view, rtVars, docVars>>

SaveToFile ==
    /\ file' = save_to_file(items) /\ prevItems' = items
    /\ lastOp' = "save" /\ lastItem' = None /\ raised' = "none"
    /\ UNCHANGED <<items, view, rtVars, docVars>>

\* the file is rewritten or removed outside the program
EnvWriteFile(c) ==
    /\ file' = c /\ file' # file /\ prevItems' = items
    /\ lastOp' = "env" /\ lastItem' = None /\ raised' = "none"
    /\ UNCHANGED <<items, view, rtVars, docVars>>

Next ==
    \/ \E item \in SampleStyles : Add(item)
    \/ Clear
    \/ LoadFromFile
    \/ SaveToFile
    \/ \E c \in FileEdits(file) : EnvWriteFile(c)

Spec == Init /\ [][Next]_vars

(***************************************************************************)
(* The list get_all_items returns.  It is self._items itself, so what the  *)
(* caller does to the returned list is done to the collection's list.      *)
(***************************************************************************)
get_all_items == "_items"

GetAllItems ==
    /\ view' = get_all_items /\ prevItems' = items
    /\ lastOp' = "get_all_items" /\ lastItem' = None /\ raised' = "none"
    /\ UNCHANGED <<items, file, rtVars, docVars>>

\* the content of the collection's list after the caller assigns `content`
\* to the list it holds
ThroughView(content) == IF view = "_items" THEN content ELSE items

ViewAppend(item) ==
    /\ view # "none" /\ Len(items) < MaxItems
    /\ items' = ThroughView(Append(items, item)) /\ prevItems' = items
    /\ lastOp' = "view_append" /\ lastItem' = Some(item) /\ raised' = "none"
    /\ UNCHANGED <<file, view, rtVars, docVars>>

ViewRemove(idx) ==
    /\ view # "none"
    /\ items' = ThroughView([j \in 1 .. Len(items) - 1 |->
                                IF j < idx THEN items[j] ELSE items[j + 1]])
    /\ prevItems' = items
    /\ lastOp' = "view_remove" /\ lastItem' = None /\ raised' = "none"
    /\ UNCHANGED <<file, view, rtVars, docVars>>

ViewReverse ==
    /\ view # "none" /\ Len(items) > 1
    /\ items' = ThroughView([j \in 1 .. Len(items) |-> items[Len(items) + 1 - j]])
    /\ prevItems' = items
    /\ lastOp' = "view_reverse" /\ lastItem' = None /\ raised' = "none"
    /\ UNCHANGED <<file, view, rtVars, docVars>>

NextView ==
    \/ \E item \in SampleStyles : Add(item)
    \/ Clear
    \/ GetAllItems
    \/ \E item \in SampleStyles : ViewAppend(item)
    \/ \E idx \in 1 .. Len(items) : ViewRemove(idx)
    \/ ViewReverse

SpecView == Init /\ [][NextView]_vars

(***************************************************************************)
(* Properties of the collection.                                           *)
(***************************************************************************)
Recognized(rec) == Get(rec, "type", "None") = "DocxParagraphStyle"

\* C1: from the empty collection, after any sequence of add, clear and
\* load_from_file calls, no two entries have the same name.
C1_UniqueNames ==
    \A i, j \in 1 .. Len(items) : i # j => items[i].name # items[j].name

\* a load of a file that holds one name twice has ended normally
C1_Witness ==
    /\ lastOp = "load" /\ raised = "none" /\ Len(items) = 2
    /\ \E i, j \in 1 .. Len(file.data) :
          /\ i < j /\ Recognized(file.data[i]) /\ Recognized(file.data[j])
          /\ file.data[i].name = file.data[j].name
          /\ file.data[i] # file.data[j]

\* C2: add(item) where an entry of that name exists replaces that entry at
\* its index and leaves the count and every other entry in place; adding a
\* definition equal to the stored one changes nothing; when no entry has the
\* name, the item is appended at the end.
C2_AddReplacesInPlaceOrAppends ==
    lastOp = "add" =>
        \A item \in lastItem :
            IF contains(prevItems, item.name)
            THEN /\ count(items) = count(prevItems)
                 /\ \A idx \in 1 .. Len(prevItems) :
                       items[idx] = IF prevItems[idx].name = item.name
                                    THEN item ELSE prevItems[idx]
                 /\ (\E idx \in 1 .. Len(prevItems) : StyleEq(prevItems[idx], item))
                       => items = prevItems
            ELSE items = Append(prevItems, item)

\* the first of three entries has just been replaced by a different definition
C2_Witness ==
    /\ lastOp = "add" /\ Len(items) = 3 /\ Len(prevItems) = 3
    /\ lastItem = Some(items[1]) /\ prevItems[1] # items[1]

\* C6: a load of an existing file whose list holds a record without a name
\* does not abort: every other record with the recognized tag, before and
\* after the bad one, is in the collection at the end, and records with an
\* unrecognized tag are skipped.
C6_LoadIsolatesBadRecord ==
    ( /\ lastOp = "load" /\ file.exists /\ file.valid
      /\ \E i \in 1 .. Len(file.data) :
            Recognized(file.data[i]) /\ from_dict_raises(file.data[i]) )
    => /\ \A i \in 1 .. Len(file.data) :
            (Recognized(file.data[i]) /\ ~from_dict_raises(file.data[i]))
                => contains(items, file.data[i].name)
       /\ \A idx \in 1 .. Len(items) :
            \E i \in 1 .. Len(file.data) :
                /\ Recognized(file.data[i]) /\ ~from_dict_raises(file.data[i])
                /\ items[idx] = from_dict(file.data[i])

\* every entry of the collection is the reading of a record of the file
FromTheFile ==
    \A idx \in 1 .. Len(items) :
        \E i \in 1 .. Len(file.data) :
            /\ Recognized(file.data[i]) /\ ~from_dict_raises(file.data[i])
            /\ items[idx] = from_dict(file.data[i])

\* C10 as stated: a load from a path that does not exist changes nothing and
\* raises nothing; a load from a path that exists leaves no entry but those
\* the file contains.
C10_LoadMissingOrReplace ==
    lastOp = "load" =>
        IF ~file.exists THEN items = prevItems /\ raised = "none"
        ELSE FromTheFile

\* C10 amended: the second half holds when the existing file parses as JSON.
C10_LoadMissingOrReplaceParsed ==
    lastOp = "load" =>
        IF ~file.exists THEN items = prevItems /\ raised = "none"
        ELSE file.valid => FromTheFile

\* a load of a parsed file has dropped an entry the file does not contain
C10_Witness ==
    /\ lastOp = "load" /\ file.exists /\ file.valid /\ Len(file.data) > 0
    /\ \E idx \in 1 .. Len(prevItems) : ~contains(items, prevItems[idx].name)

\* C9: the sequence get_all_items returns is a defensive view: appending
\* to it, removing from it or reordering it leaves the collection's entries,
\* order and count unchanged.
C9_ViewIsDefensive ==
    lastOp \in {"view_append", "view_remove", "view_reverse"} => items = prevItems

(***************************************************************************)
(* Serialization round trip: s, s.to_dict(), from_dict(s.to_dict()).       *)
(***************************************************************************)
InitRT == CollIdle /\ DocIdle /\ rt_s \in AllStyles /\ rt_dict = None /\ rt_back = None

ToDict ==
    /\ rt_dict = None
    /\ rt_dict' = Some(to_dict(rt_s))
    /\ UNCHANGED <<rt_s, rt_back, collVars, docVars>>

FromDict ==
    /\ rt_back = None
    /\ \E data \in rt_dict :
          /\ ~from_dict_raises(data)
          /\ rt_back' = Some(from_dict(data))
    /\ UNCHANGED <<rt_s, rt_dict, collVars, docVars>>

NextRT == ToDict \/ FromDict

SpecRT == InitRT /\ [][NextRT]_vars

\* C3: for every DocxParagraphStyle s, from_dict(s.to_dict()) equals s under
\* BaseStyle.__eq__, the equality of the serialized records.
C3_RoundTrip ==
    /\ \A data \in rt_dict : ~from_dict_raises(data)
    /\ \A back \in rt_back : StyleEq(back, rt_s)

\* a style without a color and of size 0 has been read back
C3_Witness ==
    /\ rt_back # None /\ rt_s.color_rgb = None /\ rt_s.font_size = 0
    /\ rt_s.alignment = 3 /\ rt_s.bold

(***************************************************************************)
(* update_style_definitions on a document, with a collection that add and  *)
(* clear change between the calls.                                         *)
(***************************************************************************)
\* a style as a document holds it before the program touches it
Existing(font_size, color, alignment) ==
    [font_name |-> Some("Times New Roman"), font_size |-> font_size,
     bold |-> Some(TRUE), italic |-> None, color |-> color,
     alignment |-> alignment, first_line_indent |-> None,
     left_indent |-> Some(Cm(2)), space_after |-> Some(Pt(10))]

PushTables ==
    { NoDocStyles,
      [n \in Names |->
          CASE n = "Normal" -> Some(Existing(Some(Pt(12)), Some(<<0, 0, 255>>), Some("CENTER")))
            [] n = "Heading 1" -> Some(Existing(None, None, None))
            [] OTHER -> None] }

InitPush ==
    /\ CollIdle /\ RtIdle
    /\ docStyles \in PushTables
    /\ paras = <<>> /\ prevParas = <<>> /\ lastRules = <<>> /\ applied_count = 0

UpdateStyleDefinitions ==
    /\ docStyles' = update_style_definitions(docStyles, items, 1)
    /\ lastOp' = IF lastOp \in {"update_style_definitions", "update_style_definitions_again"}
                 THEN "update_style_definitions_again"
                 ELSE "update_style_definitions"
    /\ prevItems' = items /\ lastItem' = None /\ raised' = "none"
    /\ UNCHANGED <<items, file, view, rtVars, paras, prevParas, lastRules, applied_count>>

NextPush ==
    \/ \E item \in SampleStyles : Add(item)
    \/ Clear
    \/ UpdateStyleDefinitions

SpecPush == InitPush /\ [][NextPush]_vars

Pushed == lastOp \in {"update_style_definitions", "update_style_definitions_again"}

AlignmentName(code) ==
    CASE code = 0 -> "LEFT" [] code = 1 -> "CENTER" [] code = 2 -> "RIGHT" [] code = 3 -> "JUSTIFY"

\* C7: after update_style_definitions(doc, collection), for every entry the
\* same-named style exists in the document and each of its attributes equals
\* the entry's field, whatever the style held before, also when the entry's
\* color is absent or its size is 0 (a size of 0 is read here as either 0
\* or no size).
C7_PushOverwritesEveryAttribute ==
    Pushed =>
        \A idx \in 1 .. Len(items) :
            LET e == items[idx] IN
            /\ StyleExists(docStyles, e.name)
            /\ \A d \in docStyles[e.name] :
                  /\ d.font_name = Some(e.font_name)
                  /\ \/ d.font_size = Some(Pt(e.font_size))
                     \/ e.font_size = 0 /\ d.font_size = None
                  /\ d.bold = Some(e.bold)
                  /\ d.italic = Some(e.italic)
                  /\ d.color = { RGBColor(c) : c \in e.color_rgb }
                  /\ d.alignment = Some(AlignmentName(e.alignment))
                  /\ d.first_line_indent = Some(Cm(e.first_line_indent))
                  /\ d.left_indent = Some(Cm(e.left_indent))
                  /\ d.space_after = Some(Pt(e.space_after))

\* C8: update_style_definitions called twice in a row with the same
\* collection leaves the style descriptors after the second call identical
\* to those after the first.
C8_PushIdempotent ==
    [][lastOp' = "update_style_definitions_again" => docStyles' = docStyles]_vars

\* a second push in a row of two entries, one of which has no color while
\* the document's style of that name has one
C8_Witness ==
    /\ lastOp = "update_style_definitions_again" /\ Len(items) >= 2
    /\ \E idx \in 1 .. Len(items) :
          /\ items[idx].color_rgb = None
          /\ \E d \in docStyles[items[idx].name] : d.color # None

(***************************************************************************)
(* apply_rules_to_paragraphs on a document of one or two paragraphs.       *)
(***************************************************************************)
ApplyTables ==
    { [n \in Names |-> IF n \in present THEN Some(NewStyle) ELSE None] :
        present \in { Names, {"Normal", "Heading 1"}, {"Normal"} } }

\* the style of a paragraph no pass has restyled yet
PriorStyle == "List Paragraph"

Paragraph(text) == [text |-> text, style |-> PriorStyle]

ParagraphLists ==
    { <<Paragraph(t)>> : t \in Texts }
        \cup { <<Paragraph(t), Paragraph(u)>> : t \in Texts, u \in Texts }

\* rule lists: the two the menu builds (one style for all; short lines to
\* the heading style, the rest to the text style), and lists with keyword
\* rules, with overlapping rules and with paragraphs that nothing matches
RuleLists ==
    { <<>>,
      <<UniversalRule("Normal")>>,
      <<LengthRule("Heading 1", 1), UniversalRule("Normal")>>,
      <<KeywordRule("Heading 1", <<"A">>), LengthRule("Heading 1", 1), UniversalRule("Body")>>,
      <<KeywordRule("Body", <<"b">>), LengthRule("Heading 1", 2)>>,
      <<UniversalRule("Body"), UniversalRule("Normal")>>,
      <<LengthRule("Normal", 1), KeywordRule("Heading 1", <<"a">>)>> }

InitApply ==
    /\ CollIdle /\ RtIdle
    /\ docStyles \in ApplyTables
    /\ paras \in ParagraphLists /\ prevParas = paras
    /\ lastRules = <<>> /\ applied_count = 0

ApplyRulesToParagraphs(rules) ==
    /\ LET r == apply_rules_to_paragraphs(docStyles, paras, rules, 1, 0)
       IN  paras' = r.paragraphs /\ applied_count' = r.applied_count
    /\ prevParas' = paras /\ lastRules' = rules
    /\ lastOp' = "apply_rules_to_paragraphs"
    /\ UNCHANGED <<items, prevItems, file, view, lastItem, raised, rtVars, docStyles>>

NextApply == \E rules \in RuleLists : ApplyRulesToParagraphs(rules)

SpecApply == InitApply /\ [][NextApply]_vars

Applied == lastOp = "apply_rules_to_paragraphs"

\* the rules of the last pass that match paragraph i, by index
Matching(i) ==
    { k \in 1 .. Len(lastRules) : match(lastRules[k], strip(prevParas[i].text)) }

\* paragraph i has text left after trimming and some rule matches it
Classified(i) == strip(prevParas[i].text) # <<>> /\ Matching(i) # {}

FirstTarget(i) == lastRules[Min(Matching(i))].target_style_name

\* C4: when every rule's target style exists in the document, the pass
\* gives each paragraph with non-empty trimmed text the target of the first
\* rule in list order that matches it, leaves every paragraph that no rule
\* matches or whose trimmed text is empty unchanged, and counts the
\* restyled paragraphs; with [LengthRule(h, n), UniversalRule(b)] the short
\* paragraphs get h, the longer ones b, and the count is the number of
\* non-empty paragraphs.
C4_FirstMatchingRuleWins ==
    ( /\ Applied
      /\ \A k \in 1 .. Len(lastRules) :
            StyleExists(docStyles, lastRules[k].target_style_name) )
    => /\ Len(paras) = Len(prevParas)
       /\ \A i \in 1 .. Len(paras) :
            /\ paras[i].text = prevParas[i].text
            /\ paras[i].style = IF Classified(i) THEN FirstTarget(i)
                                 ELSE prevParas[i].style
       /\ applied_count = Cardinality({ i \in 1 .. Len(paras) : Classified(i) })
       /\ \A h, b \in Names : \A n \in 1 .. MaxTextLen :
            lastRules = <<LengthRule(h, n), UniversalRule(b)>> =>
                /\ applied_count =
                      Cardinality({ i \in 1 .. Len(paras) : strip(paras[i].text) # <<>> })
                /\ \A i \in 1 .. Len(paras) :
                      LET len == Len(strip(paras[i].text))
                      IN  /\ (0 < len /\ len <= n) => paras[i].style = h
                          /\ len > n => paras[i].style = b

\* a short and a longer paragraph restyled by [LengthRule, UniversalRule]
C4_Witness ==
    /\ Applied
    /\ lastRules = <<LengthRule("Heading 1", 1), UniversalRule("Normal")>>
    /\ StyleExists(docStyles, "Heading 1") /\ StyleExists(docStyles, "Normal")
    /\ Len(paras) = 2 /\ Len(strip(paras[1].text)) = 1 /\ Len(strip(paras[2].text)) = 2
    /\ paras[1].style = "Heading 1" /\ paras[2].style = "Normal"
    /\ applied_count = 2

\* C5: when the target of the first rule matching a paragraph is not in the
\* document's styles, that paragraph keeps its prior style (no later rule
\* restyles it) and is not counted, and the pass goes on with the
\* following paragraphs.
C5_MissingTargetSkipsParagraph ==
    Applied =>
        /\ \A i \in 1 .. Len(paras) :
              (Classified(i) /\ ~StyleExists(docStyles, FirstTarget(i)))
                  => paras[i].style = prevParas[i].style
        /\ applied_count =
              Cardinality({ i \in 1 .. Len(paras) :
                              Classified(i) /\ StyleExists(docStyles, FirstTarget(i)) })

====
